---- MODULE Spec2Model ----
(***************************************************************************)
(* Ad-hoc bootstrap seed generators of Iris (proto/bootstrap): the address *)
(* scanning seeder (scan.go) and the random probing seeder (probe.go),     *)
(* each a goroutine offering host addresses of a subnet on an unbuffered   *)
(* sink channel until it is closed through its quit channel.               *)
(***************************************************************************)
EXTENDS Integers, Sequences, FiniteSets, Bags, TLC

----------------------------------------------------------------------------
(* Bounds of the model *)

\* Largest number of host bits of a scanned subnet
MaxHostBits == 9
\* Largest number of host bits of a probed subnet
ProbeMaxHostBits == 3
\* Number of full scan cycles the consumer receives
MaxCycles == 2
\* Number of addresses the consumer receives from a probing seeder
MaxProbeRecv == 1
\* Largest number of host bits in the specifications with fairness
LiveMaxHostBits == 3
\* Largest count kept of consecutive scan iterations without a select
MaxSkips == 6
\* Largest value the consumer writes to the phase
MaxPhase == 2
\* Largest number of host bits of a subnet with two seeders on one sink
SharedMaxHostBits == 2
\* Largest number of Request calls made on the connection
MaxRequests == 3
\* Largest number of Subscribe and Unsubscribe calls made on the connection
MaxSubCalls == 4

(* Program constants *)

\* Bits of a byte: the i/8, i%8 of the host part split
ByteBits == 8
\* Bytes of an IPv4 address and of an IPv6 address (net.IPv4len, net.IPv6len)
IPv4len == 4
IPv6len == 16

----------------------------------------------------------------------------
(* Integers and bytes *)

\* 1 << n
Pow2(n) == 2^n

ByteSize == Pow2(ByteBits)

\* a & b on non-negative integers, bit by bit from the lowest
AndBits[a \in Nat, b \in Nat] ==
    IF a = 0 \/ b = 0 THEN 0
    ELSE (a % 2) * (b % 2) + 2 * AndBits[a \div 2, b \div 2]

BitAnd(a, b) == AndBits[a, b]

\* a | b on non-negative integers, bit by bit from the lowest
OrBits[a \in Nat, b \in Nat] ==
    IF a = 0 THEN b
    ELSE IF b = 0 THEN a
    ELSE (IF a % 2 = 1 \/ b % 2 = 1 THEN 1 ELSE 0) + 2 * OrBits[a \div 2, b \div 2]

BitOr(a, b) == OrBits[a, b]

\* nextIP >> k for the non-negative values the loops shift
ShiftRight(n, k) == n \div Pow2(k)

----------------------------------------------------------------------------
(* net.IPMask and net.IP as the seeders use them *)

\* net.CIDRMask(ones, bits): ones 1-bits followed by 0-bits, in bits/8 bytes
CIDRMask(ones, bits) ==
    [i \in 1..(bits \div ByteBits) |->
        LET n == ones - ByteBits * (i - 1) IN
        IF n >= ByteBits THEN ByteSize - 1
        ELSE IF n <= 0 THEN 0
        ELSE ByteSize - Pow2(ByteBits - n)]

\* The leading 1-bits of a mask byte, and what is left of it once they are
\* shifted out
RECURSIVE LeadingOnes(_)
LeadingOnes(v) ==
    IF v >= ByteSize \div 2 THEN 1 + LeadingOnes((2 * v) % ByteSize) ELSE 0

RECURSIVE ShiftedOut(_)
ShiftedOut(v) ==
    IF v >= ByteSize \div 2 THEN ShiftedOut((2 * v) % ByteSize) ELSE v

\* simpleMaskLength: -1 for a mask that is not ones followed by zeros
OneMoreByte[rest \in Int] == IF rest = -1 THEN -1 ELSE ByteBits + rest

MaskLength[mask \in Seq(Nat), i \in Nat] ==
    IF i > Len(mask) THEN 0
    ELSE IF mask[i] = ByteSize - 1 THEN OneMoreByte[MaskLength[mask, i + 1]]
    ELSE IF ShiftedOut(mask[i]) # 0 THEN -1
    ELSE IF \E j \in (i + 1)..Len(mask) : mask[j] # 0 THEN -1
    ELSE LeadingOnes(mask[i])

SimpleMaskLength(mask, i) == MaskLength[mask, i]

\* Mask.Size(): <<ones, bits>>, <<0, 0>> for a non-canonical mask
MaskSize(mask) ==
    LET ones == SimpleMaskLength(mask, 1) IN
    IF ones = -1 THEN <<0, 0>> ELSE <<ones, Len(mask) * ByteBits>>

v4InV6Prefix == <<0, 0, 0, 0, 0, 0, 0, 0, 0, 0, 255, 255>>

\* IP.Mask(mask): the nil address (<<>>) when the lengths do not pair
IPMask(ip, mask) ==
    LET m == IF Len(mask) = IPv6len /\ Len(ip) = IPv4len
                 /\ \A i \in 1..12 : mask[i] = ByteSize - 1
             THEN SubSeq(mask, 13, 16) ELSE mask
        a == IF Len(m) = IPv4len /\ Len(ip) = IPv6len
                 /\ SubSeq(ip, 1, 12) = v4InV6Prefix
             THEN SubSeq(ip, 13, 16) ELSE ip
    IN  IF Len(a) # Len(m) THEN <<>>
        ELSE [i \in 1..Len(a) |-> BitAnd(a[i], m[i])]

\* The IPv4 bytes of an address in either form (IP.To4)
V4(ip) == IF Len(ip) = IPv6len THEN SubSeq(ip, 13, 16) ELSE ip

\* addr.String(), the key under which the consumer counts an address: the
\* empty string for the nil address, else the dotted quad, kept as the one
\* number its four bytes spell (the first byte counted from -128 to stay
\* within the 32 bit integers of TLC)
AddrString(ip) ==
    IF Len(ip) = 0 THEN ""
    ELSE LET b == V4(ip) IN
         (((b[1] - ByteSize \div 2) * ByteSize + b[2]) * ByteSize + b[3]) * ByteSize
            + b[4]

----------------------------------------------------------------------------
(* The steps of run() that do not touch a channel *)

\* hostBits := maskBits - subnetBits
HostBitsOf(net) == MaskSize(net.Mask)[2] - MaskSize(net.Mask)[1]

\* The host part loop reads IP[len(IP)-1-i/8] for i < hostBits: an index
\* below zero panics
HostIPPanics(net, bits) ==
    \E i \in 0..(bits - 1) : Len(net.IP) - (i \div ByteBits) < 1

\* hostIP: the sum over i < hostBits of IP[len(IP)-1-i/8] & (1 << (i%8))
RECURSIVE HostIPSum(_, _)
HostIPSum(net, i) ==
    IF i < 0 THEN 0
    ELSE BitAnd(net.IP[Len(net.IP) - (i \div ByteBits)], Pow2(i % ByteBits))
            + HostIPSum(net, i - 1)

HostIPOf(net, bits) == HostIPSum(net, bits - 1)

\* The full host address: the masked IP with nextIP or-ed in from the last
\* byte backwards, eight bits a byte
OrBytes[h \in Seq(Nat), i \in Nat, n \in Nat] ==
    IF i < 1 THEN h
    ELSE OrBytes[[h EXCEPT ![i] = BitOr(h[i], n % ByteSize)], i - 1,
                 ShiftRight(n, ByteBits)]

OrInto(h, i, n) == OrBytes[h, i, n]

HostAddressUnmasked(net, nextIP) ==
    OrInto(net.IP, Len(net.IP), nextIP)

HostAddress(net, nextIP) ==
    LET masked == IPMask(net.IP, net.Mask) IN
    OrInto(masked, Len(masked), nextIP)

\* offset = -offset; if offset >= 0 { offset++ }
NextOffsetStrict(off) == IF -off > 0 THEN -off + 1 ELSE -off
NextOffsetNoFlip(off) == IF off >= 0 THEN off + 1 ELSE off
NextOffset(off) == IF -off >= 0 THEN -off + 1 ELSE -off

\* The errors of the seeders
Nil == <<>>
ErrTooSmall(bits) == <<"host address space too small", bits>>

\* if hostBits < 2: the IP net cannot be scanned or probed
TooSmallOffByOne(bits) == bits <= 2
TooSmallBelowOne(bits) == bits < 1
TooSmall(bits) == bits < 2

----------------------------------------------------------------------------
(* Configurations *)

Algos == {"scan", "probe"}

\* The addresses the seeders are configured with: the address of the tests,
\* the same in its 16 byte form, a network address, a broadcast address and
\* an address with bits set in the second host byte
HostIPs ==
    { <<192, 168, 0, 100>>,
      v4InV6Prefix \o <<192, 168, 0, 100>>,
      <<192, 168, 0, 0>>,
      <<192, 168, 3, 255>>,
      <<192, 168, 1, 100>> }

\* The addresses of the probed subnets: a probe does not read its own host
\* part, it only masks it away
ProbeIPs ==
    { v4InV6Prefix \o <<192, 168, 0, 100>>,
      <<192, 168, 3, 255>> }

AddressBits == IPv4len * ByteBits

\* Well formed subnets: an address and a canonical mask of the IPv4 length
Subnets(ips, maxBits) ==
    { [IP |-> ip, Mask |-> CIDRMask(AddressBits - h, AddressBits)] :
        ip \in ips, h \in 0..maxBits }

\* Malformed pairings: a non-canonical mask, and masks longer than the address
NonCanonical == [IP |-> <<192, 168, 0, 100>>, Mask |-> <<255, 0, 255, 0>>]
LongMask     == [IP |-> <<192, 168, 0, 100>>,
                 Mask |-> CIDRMask(AddressBits + ByteBits - 2, AddressBits + ByteBits)]
LongZeroMask == [IP |-> <<192, 168, 0, 100>>,
                 Mask |-> CIDRMask(0, AddressBits + ByteBits)]

Configs(a) ==
    IF a = "scan"
    THEN Subnets(HostIPs, MaxHostBits) \cup {NonCanonical, LongMask, LongZeroMask}
    ELSE Subnets(ProbeIPs, ProbeMaxHostBits) \cup {NonCanonical, LongMask}

\* The invariant of a Subnet: a canonical mask no longer than the address
WellFormed(net) ==
    /\ SimpleMaskLength(net.Mask, 1) # -1
    /\ Len(net.Mask) = IPv4len
    /\ Len(net.IP) \in {IPv4len, IPv6len}
    /\ Len(net.IP) = IPv6len => SubSeq(net.IP, 1, 12) = v4InV6Prefix

----------------------------------------------------------------------------
(* State *)

VARIABLES
    algo,       \* which seeder: "scan" or "probe"
    ipnet,      \* s.ipnet
    caller,     \* the goroutine that constructs and starts the seeder
    closers,    \* the Close calls: where each is, and what it returned
    pc,         \* where run() is
    hostBits,   \* locals of run()
    hostIP,
    up,
    down,
    offset,
    skips,      \* iterations of the scan loop since its last select
    host,       \* the address offered in the select
    quitReady,  \* in the select: a Close was blocked on s.quit as it began
    err,
    errc,       \* the reply channel received from s.quit, "nil" before
    received,   \* addr.String() of the addresses the consumer got, in order
    phase,      \* the uint32 that the phase pointer given to Start points to
    peer,       \* a probing seeder started on the same sink and subnet
    lock,       \* c.lock of the connection: "free" or the call that holds it
    reqIdx,     \* c.reqIdx
    reqs,       \* c.reqs: request id -> state of its reply channel
    requests,   \* the Request calls: where each is, its reqId, what it returned
    reqLog,     \* the request ids in the order they were assigned
    subs,       \* c.subs: the topics with a handler
    subscriber, \* the caller of Subscribe and Unsubscribe
    relayCalls, \* the Subscribe and Unsubscribe calls made on c.relay
    lastOk      \* topic -> the last call on it that returned nil

seederVars == <<algo, ipnet>>
scanVars   == <<hostIP, up, down, offset, skips>>
reqVars    == <<reqIdx, reqs, requests, reqLog>>
subVars    == <<subs, subscriber, relayCalls, lastOk>>
connVars   == <<lock, reqVars, subVars>>
envVars    == <<phase, peer, connVars>>
selVars    == <<host, quitReady>>
runVars    == <<pc, hostBits, hostIP, up, down, offset, skips, host, quitReady,
                err, errc>>
vars == <<algo, ipnet, caller, closers, pc, hostBits, hostIP, up, down,
          offset, skips, host, quitReady, err, errc, received, envVars>>

CloserIds == DOMAIN closers

\* How many addresses the consumer takes
ValidHosts(bits) == Pow2(bits) - 2

RecvCap ==
    IF algo = "scan" THEN MaxCycles * ValidHosts(HostBitsOf(ipnet))
    ELSE MaxProbeRecv

\* The callers of the connection, and the topics they name
ReqProcs == {"r1", "r2"}
Topics == {"t1", "t2"}

\* What Request returns: whether a reply, and the error
NoReturn == [rep |-> FALSE, err |-> Nil]

\* Connect: the connection with its empty tables
InitConnection ==
    /\ lock = "free"
    /\ reqIdx = 0
    /\ reqs = <<>>
    /\ requests = [r \in ReqProcs |-> [pc |-> "idle", reqId |-> 0, ret |-> NoReturn]]
    /\ reqLog = <<>>
    /\ subs = {}
    /\ subscriber = [pc |-> "idle", op |-> "none", topic |-> "none", ok |-> FALSE,
                     ret |-> Nil, calls |-> 0, before |-> {}, relayed |-> 0]
    /\ relayCalls = <<>>
    /\ lastOk = [t \in Topics |-> "none"]

InitWith(cs, ids) ==
    /\ InitConnection
    /\ algo \in Algos
    /\ ipnet \in cs[algo]
    /\ caller = [pc |-> "new", newErr |-> Nil, startErr |-> Nil]
    /\ closers = [c \in ids |-> [pc |-> "idle", ret |-> Nil]]
    /\ pc = "none"
    /\ hostBits = 0
    /\ hostIP = 0
    /\ up = TRUE
    /\ down = TRUE
    /\ offset = 0
    /\ skips = 0
    /\ host = <<>>
    /\ quitReady = FALSE
    /\ err = Nil
    /\ errc = "nil"
    /\ received = <<>>
    /\ phase = 0
    /\ peer = [pc |-> "none", hostBits |-> 0, host |-> <<>>, err |-> Nil,
               errc |-> "nil", closer |-> [pc |-> "idle", ret |-> Nil],
               delivered |-> 0]

Init == InitWith([a \in Algos |-> Configs(a)], {"close"})

----------------------------------------------------------------------------
(* The caller: newScanSeeder / newProbeSeeder, Start, Close *)

\* newScanSeeder, newProbeSeeder: the seeder with its quit channel, nil error
NewSeeder ==
    /\ caller.pc = "new"
    /\ caller' = [caller EXCEPT !.pc = "created", !.newErr = Nil]
    /\ UNCHANGED <<seederVars, envVars, closers, runVars, received>>

\* Start: go s.run(sink, phase); return nil
StartChecked ==
    /\ caller.pc = "created"
    /\ caller' = [caller EXCEPT
                    !.pc = "started",
                    !.startErr = IF TooSmall(HostBitsOf(ipnet))
                                 THEN ErrTooSmall(HostBitsOf(ipnet)) ELSE Nil]
    /\ pc' = "entry"
    /\ UNCHANGED <<seederVars, envVars, closers, hostBits, scanVars, selVars, err, errc,
                   received>>

Start ==
    /\ caller.pc = "created"
    /\ caller' = [caller EXCEPT !.pc = "started", !.startErr = Nil]
    /\ pc' = "entry"
    /\ UNCHANGED <<seederVars, envVars, closers, hostBits, scanVars, selVars, err, errc,
                   received>>

\* Close, up to its send: errc := make(chan error); s.quit <- errc blocks
\* until run() receives
CloseCall(c) ==
    /\ caller.pc # "new"
    /\ closers[c].pc = "idle"
    /\ closers' = [closers EXCEPT ![c].pc = "sending"]
    /\ UNCHANGED <<seederVars, envVars, caller, runVars, received>>

----------------------------------------------------------------------------
(* run() *)

\* From the start of run() to the loop: hostBits, hostIP (scan only) and the
\* check of the host address space
RunEntry ==
    /\ pc = "entry"
    /\ \E bits \in {HostBitsOf(ipnet)} :
        /\ hostBits' = bits
        /\ IF algo = "scan" /\ HostIPPanics(ipnet, bits)
           THEN /\ pc' = "panic"
                /\ UNCHANGED <<hostIP, err>>
           ELSE /\ pc' = "loop"
                /\ hostIP' = IF algo = "scan" THEN HostIPOf(ipnet, bits) ELSE 0
                /\ err' = IF TooSmall(bits) THEN ErrTooSmall(bits) ELSE Nil
    /\ UNCHANGED <<seederVars, envVars, caller, closers, up, down, offset, skips,
                   selVars, errc,
                   received>>

\* A Close call is blocked in s.quit <- errc
QuitBlocked == \E c \in CloserIds : closers[c].pc = "sending"

\* The condition of both loops: err == nil && errc == nil
LoopCondErrOnly == err = Nil
LoopCond == err = Nil /\ errc = "nil"

\* One more iteration that ended in a continue, counted up to MaxSkips
Skipped(n) == IF n < MaxSkips THEN n + 1 ELSE n

\* One iteration of the scan loop up to its select or its continue
ScanStepRestartAtOne ==
    /\ algo = "scan"
    /\ pc = "loop"
    /\ LoopCond
    /\ LET reset == ~up /\ ~down
           up1   == IF reset THEN TRUE ELSE up
           down1 == IF reset THEN TRUE ELSE down
           off1  == IF reset THEN 1 ELSE offset
       IN
        \E nextIP \in {hostIP + off1} :
            /\ offset' = NextOffset(off1)
            /\ IF nextIP <= 0
               THEN /\ down' = FALSE
                    /\ up' = up1
                    /\ skips' = Skipped(skips)
                    /\ UNCHANGED <<pc, selVars>>
               ELSE IF nextIP >= Pow2(hostBits) - 1
               THEN /\ up' = FALSE
                    /\ down' = down1
                    /\ skips' = Skipped(skips)
                    /\ UNCHANGED <<pc, selVars>>
               ELSE /\ up' = up1
                    /\ down' = down1
                    /\ skips' = 0
                    /\ host' = HostAddress(ipnet, nextIP)
                    /\ quitReady' = QuitBlocked
                    /\ pc' = "select"
    /\ UNCHANGED <<seederVars, envVars, caller, closers, hostBits, hostIP, err, errc,
                   received>>

ScanStep ==
    /\ algo = "scan"
    /\ pc = "loop"
    /\ LoopCond
    /\ LET reset == ~up /\ ~down
           up1   == IF reset THEN TRUE ELSE up
           down1 == IF reset THEN TRUE ELSE down
           off1  == IF reset THEN 0 ELSE offset
       IN
        \E nextIP \in {hostIP + off1} :
            /\ offset' = NextOffset(off1)
            /\ IF nextIP <= 0
               THEN /\ down' = FALSE
                    /\ up' = up1
                    /\ skips' = Skipped(skips)
                    /\ UNCHANGED <<pc, selVars>>
               ELSE IF nextIP >= Pow2(hostBits) - 1
               THEN /\ up' = FALSE
                    /\ down' = down1
                    /\ skips' = Skipped(skips)
                    /\ UNCHANGED <<pc, selVars>>
               ELSE /\ up' = up1
                    /\ down' = down1
                    /\ skips' = 0
                    /\ host' = HostAddress(ipnet, nextIP)
                    /\ quitReady' = QuitBlocked
                    /\ pc' = "select"
    /\ UNCHANGED <<seederVars, envVars, caller, closers, hostBits, hostIP, err, errc,
                   received>>

\* One iteration of the probe loop up to its select:
\* nextIP := rand.Intn(1<<uint(hostBits)-2) + 1
ProbeStepFromZero ==
    /\ algo = "probe"
    /\ pc = "loop"
    /\ LoopCond
    /\ \E nextIP \in 0..(Pow2(hostBits) - 3) :
        host' = HostAddress(ipnet, nextIP)
    /\ quitReady' = QuitBlocked
    /\ pc' = "select"
    /\ UNCHANGED <<seederVars, envVars, caller, closers, hostBits, scanVars, err, errc,
                   received>>

ProbeStep ==
    /\ algo = "probe"
    /\ pc = "loop"
    /\ LoopCond
    /\ \E nextIP \in 1..(Pow2(hostBits) - 2) :
        host' = HostAddress(ipnet, nextIP)
    /\ quitReady' = QuitBlocked
    /\ pc' = "select"
    /\ UNCHANGED <<seederVars, envVars, caller, closers, hostBits, scanVars, err, errc,
                   received>>

\* case sink <- &net.IPAddr{IP: host}: the consumer receives the address
SinkSendCountsPhase ==
    /\ pc = "select"
    /\ Len(received) < RecvCap
    /\ received' = Append(received, AddrString(host))
    /\ quitReady' = FALSE
    /\ pc' = "loop"
    /\ phase' = IF phase < MaxPhase THEN phase + 1 ELSE 0
    /\ UNCHANGED <<seederVars, peer, connVars, caller, closers, hostBits, scanVars,
                   host, err, errc>>

SinkSend ==
    /\ pc = "select"
    /\ Len(received) < RecvCap
    /\ received' = Append(received, AddrString(host))
    /\ quitReady' = FALSE
    /\ pc' = "loop"
    /\ UNCHANGED <<seederVars, envVars, caller, closers, hostBits, scanVars, host, err,
                   errc>>

\* The same case with a consumer that goes on receiving after the addresses
\* it keeps
SinkDrain ==
    /\ pc = "select"
    /\ Len(received) >= RecvCap
    /\ quitReady' = FALSE
    /\ pc' = "loop"
    /\ UNCHANGED <<seederVars, envVars, caller, closers, hostBits, scanVars, host,
                   err, errc, received>>

\* case errc = <-s.quit: the send of a Close call is received
QuitRecvNoReply(c) ==
    /\ pc = "select"
    /\ closers[c].pc = "sending"
    /\ errc' = c
    /\ closers' = [closers EXCEPT ![c].pc = "returned"]
    /\ quitReady' = FALSE
    /\ pc' = "loop"
    /\ UNCHANGED <<seederVars, envVars, caller, hostBits, scanVars, host, err, received>>

QuitRecvAfterSend(c) ==
    /\ pc = "select"
    /\ received # <<>>
    /\ closers[c].pc = "sending"
    /\ errc' = c
    /\ closers' = [closers EXCEPT ![c].pc = "receiving"]
    /\ quitReady' = FALSE
    /\ pc' = "loop"
    /\ UNCHANGED <<seederVars, envVars, caller, hostBits, scanVars, host, err, received>>

QuitRecvIfSinkBlocked(c) ==
    /\ pc = "select"
    /\ ~(ENABLED SinkSend \/ ENABLED SinkDrain)
    /\ closers[c].pc = "sending"
    /\ errc' = c
    /\ closers' = [closers EXCEPT ![c].pc = "receiving"]
    /\ quitReady' = FALSE
    /\ pc' = "loop"
    /\ UNCHANGED <<seederVars, envVars, caller, hostBits, scanVars, host, err, received>>

QuitRecv(c) ==
    /\ pc = "select"
    /\ closers[c].pc = "sending"
    /\ errc' = c
    /\ closers' = [closers EXCEPT ![c].pc = "receiving"]
    /\ quitReady' = FALSE
    /\ pc' = "loop"
    /\ UNCHANGED <<seederVars, envVars, caller, hostBits, scanVars, host, err, received>>

\* The loop condition fails: err != nil or errc != nil
LoopExitReturns ==
    /\ pc = "loop"
    /\ ~LoopCond
    /\ pc' = IF errc = "nil" THEN "done" ELSE "reply"
    /\ UNCHANGED <<seederVars, envVars, caller, closers, hostBits, scanVars, selVars, err,
                   errc, received>>

LoopExit ==
    /\ pc = "loop"
    /\ ~LoopCond
    /\ pc' = IF errc = "nil" THEN "wait" ELSE "reply"
    /\ UNCHANGED <<seederVars, envVars, caller, closers, hostBits, scanVars, selVars, err,
                   errc, received>>

\* if errc == nil { errc = <-s.quit }
WaitQuit(c) ==
    /\ pc = "wait"
    /\ closers[c].pc = "sending"
    /\ errc' = c
    /\ closers' = [closers EXCEPT ![c].pc = "receiving"]
    /\ pc' = "reply"
    /\ UNCHANGED <<seederVars, envVars, caller, hostBits, scanVars, selVars, err, received>>

\* errc <- err, received by the Close call, which returns it; run() returns
ReplyAndWaitAgain ==
    /\ pc = "reply"
    /\ closers[errc].pc = "receiving"
    /\ closers' = [closers EXCEPT ![errc].pc = "returned", ![errc].ret = err]
    /\ pc' = "wait"
    /\ UNCHANGED <<seederVars, envVars, caller, hostBits, scanVars, selVars, err, errc,
                   received>>

Reply ==
    /\ pc = "reply"
    /\ closers[errc].pc = "receiving"
    /\ closers' = [closers EXCEPT ![errc].pc = "returned", ![errc].ret = err]
    /\ pc' = "done"
    /\ UNCHANGED <<seederVars, envVars, caller, hostBits, scanVars, selVars, err, errc,
                   received>>

----------------------------------------------------------------------------
(* The probing seeder that shares the sink: Start, Close and run() of       *)
(* probe.go once more, on its own quit channel and locals                   *)

\* What a step of the peer leaves alone: the other seeder and what the
\* consumer kept of it
notPeer == <<seederVars, phase, connVars, caller, closers, runVars, received>>

\* Start: go s.run(sink, phase)
PeerStart ==
    /\ peer.pc = "none"
    /\ peer' = [peer EXCEPT !.pc = "entry"]
    /\ UNCHANGED notPeer

\* Close, up to its send on the quit channel of the peer
PeerCloseCall ==
    /\ peer.closer.pc = "idle"
    /\ peer' = [peer EXCEPT !.closer.pc = "sending"]
    /\ UNCHANGED notPeer

\* hostBits and the check of the host address space
PeerRunEntry ==
    /\ peer.pc = "entry"
    /\ \E bits \in {HostBitsOf(ipnet)} :
        peer' = [peer EXCEPT
                    !.pc = "loop",
                    !.hostBits = bits,
                    !.err = IF TooSmall(bits) THEN ErrTooSmall(bits) ELSE Nil]
    /\ UNCHANGED notPeer

\* for err == nil && errc == nil: a random host address up to the select
PeerProbeStep ==
    /\ peer.pc = "loop"
    /\ peer.err = Nil /\ peer.errc = "nil"
    /\ \E nextIP \in 1..(Pow2(peer.hostBits) - 2) :
        peer' = [peer EXCEPT !.pc = "select", !.host = HostAddress(ipnet, nextIP)]
    /\ UNCHANGED notPeer

\* case sink <- &net.IPAddr{IP: host}: the consumer receives from the peer
PeerSinkSend ==
    /\ peer.pc = "select"
    /\ peer.delivered < MaxProbeRecv
    /\ peer' = [peer EXCEPT !.pc = "loop", !.delivered = @ + 1]
    /\ UNCHANGED notPeer

\* case errc = <-s.quit
PeerQuitRecvSharedQuit ==
    /\ peer.pc = "select"
    /\ \/ /\ peer.closer.pc = "sending"
          /\ peer' = [peer EXCEPT !.pc = "loop", !.errc = "close",
                                   !.closer.pc = "receiving"]
          /\ UNCHANGED closers
       \/ \E c \in CloserIds :
            /\ closers[c].pc = "sending"
            /\ peer' = [peer EXCEPT !.pc = "loop", !.errc = c]
            /\ closers' = [closers EXCEPT ![c].pc = "receiving"]
    /\ UNCHANGED <<seederVars, phase, connVars, caller, runVars, received>>

PeerQuitRecv ==
    /\ peer.pc = "select"
    /\ peer.closer.pc = "sending"
    /\ peer' = [peer EXCEPT !.pc = "loop", !.errc = "close",
                             !.closer.pc = "receiving"]
    /\ UNCHANGED notPeer

PeerLoopExit ==
    /\ peer.pc = "loop"
    /\ ~(peer.err = Nil /\ peer.errc = "nil")
    /\ peer' = [peer EXCEPT !.pc = IF peer.errc = "nil" THEN "wait" ELSE "reply"]
    /\ UNCHANGED notPeer

\* if errc == nil { errc = <-s.quit }
PeerWaitQuit ==
    /\ peer.pc = "wait"
    /\ peer.closer.pc = "sending"
    /\ peer' = [peer EXCEPT !.pc = "reply", !.errc = "close",
                             !.closer.pc = "receiving"]
    /\ UNCHANGED notPeer

\* errc <- err
PeerReply ==
    /\ peer.pc = "reply"
    /\ peer.closer.pc = "receiving"
    /\ peer' = [peer EXCEPT !.pc = "done", !.closer.pc = "returned",
                             !.closer.ret = peer.err]
    /\ UNCHANGED notPeer

----------------------------------------------------------------------------
(* The connection of the README: Request *)

\* Everything but the connection
notConn == <<seederVars, phase, peer, caller, closers, runVars, received>>

\* The errors of the connection
ErrTimedOut == <<"iris: request timed out">>
ErrAlreadySubscribed == <<"already subscribed">>
ErrNotSubscribed == <<"not subscribed">>
ErrCarrier == <<"carrier">>

\* delete(c.reqs, reqId)
Delete(m, k) == [i \in DOMAIN m \ {k} |-> m[i]]

\* A Request that takes the lock whoever holds it
ReqLockNoMutex(r) ==
    /\ requests[r].pc \in {"idle", "returned"}
    /\ Len(reqLog) < MaxRequests
    /\ lock' = r
    /\ requests' = [requests EXCEPT ![r].pc = "locked", ![r].ret = NoReturn]
    /\ UNCHANGED <<notConn, reqIdx, reqs, reqLog, subVars>>

\* c.lock.Lock() on entry; the wrap of the uint64 c.reqIdx lies 2^64
\* requests away, the calls are capped long before
ReqLock(r) ==
    /\ requests[r].pc \in {"idle", "returned"}
    /\ Len(reqLog) < MaxRequests
    /\ lock = "free"
    /\ lock' = r
    /\ requests' = [requests EXCEPT ![r].pc = "locked", ![r].ret = NoReturn]
    /\ UNCHANGED <<notConn, reqIdx, reqs, reqLog, subVars>>

\* reqChan := make(chan []byte, 1); reqId := c.reqIdx; c.reqs[reqId] = reqChan
ReqRegister(r) ==
    /\ requests[r].pc = "locked"
    /\ requests' = [requests EXCEPT ![r].pc = "registered", ![r].reqId = reqIdx]
    /\ reqs' = (reqIdx :> "empty") @@ reqs
    /\ reqLog' = Append(reqLog, reqIdx)
    /\ UNCHANGED <<notConn, lock, reqIdx, subVars>>

\* c.reqIdx++
ReqIncr(r) ==
    /\ requests[r].pc = "registered"
    /\ reqIdx' = reqIdx + 1
    /\ requests' = [requests EXCEPT ![r].pc = "counted"]
    /\ UNCHANGED <<notConn, lock, reqs, reqLog, subVars>>

\* c.lock.Unlock()
ReqUnlock(r) ==
    /\ requests[r].pc = "counted"
    /\ lock' = "free"
    /\ requests' = [requests EXCEPT ![r].pc = "unlocked"]
    /\ UNCHANGED <<notConn, reqIdx, reqs, reqLog, subVars>>

\* c.relay.Balance(appPrefix+app, assembleRequest(reqId, msg)), then the select
ReqBalance(r) ==
    /\ requests[r].pc = "unlocked"
    /\ requests' = [requests EXCEPT ![r].pc = "waiting"]
    /\ UNCHANGED <<notConn, lock, reqIdx, reqs, reqLog, subVars>>

\* The reply to a request that was sent arrives on its channel, whose
\* buffer of one takes it even when the Request has stopped waiting
ReplyArrives(id) ==
    /\ id \in DOMAIN reqs
    /\ reqs[id] = "empty"
    /\ \E r \in ReqProcs :
          requests[r].reqId = id /\ requests[r].pc \in {"waiting", "deferred"}
    /\ reqs' = [reqs EXCEPT ![id] = "full"]
    /\ UNCHANGED <<notConn, lock, reqIdx, requests, reqLog, subVars>>

\* case rep := <-reqChan: return rep, nil
ReqRecv(r) ==
    /\ requests[r].pc = "waiting"
    /\ requests[r].reqId \in DOMAIN reqs
    /\ reqs[requests[r].reqId] = "full"
    /\ reqs' = [reqs EXCEPT ![requests[r].reqId] = "empty"]
    /\ requests' = [requests EXCEPT ![r].pc = "deferred", ![r].ret = [rep |-> TRUE, err |-> Nil]]
    /\ UNCHANGED <<notConn, lock, reqIdx, reqLog, subVars>>

\* case <-time.After(timeout): return nil, "iris: request timed out"
ReqTimeout(r) ==
    /\ requests[r].pc = "waiting"
    /\ requests' = [requests EXCEPT ![r].pc = "deferred", ![r].ret = [rep |-> FALSE, err |-> ErrTimedOut]]
    /\ UNCHANGED <<notConn, lock, reqIdx, reqs, reqLog, subVars>>

\* The deferred function: c.lock.Lock()
DeferLock(r) ==
    /\ requests[r].pc = "deferred"
    /\ lock = "free"
    /\ lock' = r
    /\ requests' = [requests EXCEPT ![r].pc = "cleaning"]
    /\ UNCHANGED <<notConn, reqIdx, reqs, reqLog, subVars>>

\* delete(c.reqs, reqId); close(reqChan)
DeferDelete(r) ==
    /\ requests[r].pc = "cleaning"
    /\ reqs' = Delete(reqs, requests[r].reqId)
    /\ requests' = [requests EXCEPT ![r].pc = "deleted"]
    /\ UNCHANGED <<notConn, lock, reqIdx, reqLog, subVars>>

\* The deferred c.lock.Unlock(), and Request has returned
DeferUnlock(r) ==
    /\ requests[r].pc = "deleted"
    /\ lock' = "free"
    /\ requests' = [requests EXCEPT ![r].pc = "returned"]
    /\ UNCHANGED <<notConn, reqIdx, reqs, reqLog, subVars>>

----------------------------------------------------------------------------
(* The connection of the README: Subscribe and Unsubscribe *)

Sub == "sub"

\* What c.relay.Subscribe hands back to Subscribe: nil, or an error
CarrierResults == {Nil, ErrCarrier}

\* The call has returned: noted as the last on its topic when it gave nil
Returned(ret) ==
    /\ subscriber' = [subscriber EXCEPT !.pc = "returned", !.ret = ret]
    /\ lastOk' = IF ret = Nil
                 THEN [lastOk EXCEPT ![subscriber.topic] = subscriber.op]
                 ELSE lastOk

\* A call is made; subscriber.before and .relayed keep what the table and
\* the carrier calls were when it was
Enter(op, t) ==
    /\ subscriber.pc \in {"idle", "returned"}
    /\ subscriber.calls < MaxSubCalls
    /\ lock = "free"
    /\ lock' = Sub
    /\ subscriber' = [pc |-> "locked", op |-> op, topic |-> t, ok |-> FALSE,
                      ret |-> Nil, calls |-> subscriber.calls + 1,
                      before |-> subs, relayed |-> Len(relayCalls)]
    /\ UNCHANGED <<notConn, reqVars, subs, relayCalls, lastOk>>

\* Subscribe: c.lock.Lock(), the unlock deferred
SubscribeLock(t) == Enter("Subscribe", t)

\* Subscribe under the lock: the check of c.subs, the entry, and the call on
\* the carrier whose result is returned
SubscribeBody ==
    /\ subscriber.pc = "locked"
    /\ subscriber.op = "Subscribe"
    /\ IF subscriber.topic \in subs
       THEN /\ subscriber' = [subscriber EXCEPT !.pc = "unlocking",
                                                !.ret = ErrAlreadySubscribed]
            /\ UNCHANGED <<subs, relayCalls>>
       ELSE /\ subs' = subs \cup {subscriber.topic}
            /\ relayCalls' = Append(relayCalls, <<"Subscribe", subscriber.topic>>)
            /\ \E res \in CarrierResults :
                  subscriber' = [subscriber EXCEPT !.pc = "unlocking", !.ret = res]
    /\ UNCHANGED <<notConn, lock, reqVars, lastOk>>

\* The deferred c.lock.Unlock(), and Subscribe has returned
SubscribeUnlock ==
    /\ subscriber.pc = "unlocking"
    /\ subscriber.op = "Subscribe"
    /\ lock' = "free"
    /\ Returned(subscriber.ret)
    /\ UNCHANGED <<notConn, reqVars, subs, relayCalls>>

\* Unsubscribe: c.lock.Lock()
UnsubscribeLock(t) == Enter("Unsubscribe", t)

\* _, ok := c.subs[topPrefix+topic]; delete(c.subs, topPrefix+topic)
UnsubscribeDelete ==
    /\ subscriber.pc = "locked"
    /\ subscriber.op = "Unsubscribe"
    /\ subscriber' = [subscriber EXCEPT !.pc = "unlocking",
                                        !.ok = subscriber.topic \in subs]
    /\ subs' = subs \ {subscriber.topic}
    /\ UNCHANGED <<notConn, lock, reqVars, relayCalls, lastOk>>

\* c.lock.Unlock()
UnsubscribeUnlock ==
    /\ subscriber.pc = "unlocking"
    /\ subscriber.op = "Unsubscribe"
    /\ lock' = "free"
    /\ subscriber' = [subscriber EXCEPT !.pc = "notify"]
    /\ UNCHANGED <<notConn, reqVars, subs, relayCalls, lastOk>>

\* if ok { c.relay.Unsubscribe(...) } else { return "not subscribed" }; return nil
UnsubscribeNotify ==
    /\ subscriber.pc = "notify"
    /\ IF subscriber.ok
       THEN /\ relayCalls' = Append(relayCalls, <<"Unsubscribe", subscriber.topic>>)
            /\ Returned(Nil)
       ELSE /\ Returned(ErrNotSubscribed)
            /\ UNCHANGED relayCalls
    /\ UNCHANGED <<notConn, lock, reqVars, subs>>

----------------------------------------------------------------------------
(* Specifications *)

TheClose == "close"

Next ==
    \/ NewSeeder
    \/ Start
    \/ \E c \in CloserIds : CloseCall(c)
    \/ RunEntry
    \/ ScanStep
    \/ ProbeStep
    \/ SinkSend
    \/ \E c \in CloserIds : QuitRecv(c)
    \/ LoopExit
    \/ \E c \in CloserIds : WaitQuit(c)
    \/ Reply

Spec == Init /\ [][Next]_vars

\* The scheduler runs every goroutine that can take a step, and a channel
\* operation both sides of which stay ready takes place
Fairness ==
    /\ WF_vars(RunEntry)
    /\ WF_vars(ScanStep)
    /\ WF_vars(ProbeStep)
    /\ WF_vars(LoopExit)
    /\ WF_vars(QuitRecv(TheClose))
    /\ WF_vars(WaitQuit(TheClose))
    /\ WF_vars(Reply)

\* The seeders on the smaller subnets, with a consumer, scheduled fairly
LiveConfigs(a) ==
    Subnets(IF a = "scan" THEN HostIPs ELSE ProbeIPs, LiveMaxHostBits)
        \cup {NonCanonical, LongMask}

InitLive == InitWith([a \in Algos |-> LiveConfigs(a)], {TheClose})

LiveSpec == InitLive /\ [][Next]_vars /\ Fairness

\* The seeders on a sink nobody ever receives from, scheduled fairly
NextNoConsumer ==
    \/ NewSeeder
    \/ Start
    \/ \E c \in CloserIds : CloseCall(c)
    \/ RunEntry
    \/ ScanStep
    \/ ProbeStep
    \/ \E c \in CloserIds : QuitRecv(c)
    \/ LoopExit
    \/ \E c \in CloserIds : WaitQuit(c)
    \/ Reply

NoConsumerSpec == Init /\ [][NextNoConsumer]_vars /\ Fairness

\* The seeders with a consumer that is always ready to receive. A select
\* with both cases ready picks one at random, so a case that is ready again
\* and again is taken in the end
NextGreedy ==
    \/ Next
    \/ SinkDrain

GreedyFairness ==
    /\ Fairness
    /\ SF_vars(QuitRecv(TheClose))
    /\ WF_vars(SinkSend)
    /\ WF_vars(SinkDrain)

GreedySpec == InitLive /\ [][NextGreedy]_vars /\ GreedyFairness

\* A seeder on which Close is called twice, one after the other or both at
\* once
Again == "again"

InitCloseTwice == InitWith([a \in Algos |-> LiveConfigs(a)], {TheClose, Again})

CloseTwiceSpec == InitCloseTwice /\ [][Next]_vars

\* The seeders with a consumer that writes the phase as it likes while they
\* run
PhaseWrite ==
    /\ phase' \in (0..MaxPhase) \ {phase}
    /\ UNCHANGED <<seederVars, peer, connVars, caller, closers, runVars, received>>

NextPhase ==
    \/ Next
    \/ PhaseWrite

PhaseSpec == InitLive /\ [][NextPhase]_vars

\* A scanning and a probing seeder of one subnet, started on the same sink
SharedConfigs ==
    Subnets({<<192, 168, 0, 100>>, <<192, 168, 3, 255>>}, SharedMaxHostBits)

InitShared ==
    /\ InitWith([a \in Algos |-> SharedConfigs], {TheClose})
    /\ algo = "scan"

ScanNext ==
    \/ NewSeeder
    \/ Start
    \/ CloseCall(TheClose)
    \/ RunEntry
    \/ ScanStep
    \/ SinkSend
    \/ QuitRecv(TheClose)
    \/ LoopExit
    \/ WaitQuit(TheClose)
    \/ Reply

PeerNext ==
    \/ PeerStart
    \/ PeerCloseCall
    \/ PeerRunEntry
    \/ PeerProbeStep
    \/ PeerSinkSend
    \/ PeerQuitRecv
    \/ PeerLoopExit
    \/ PeerWaitQuit
    \/ PeerReply

NextShared ==
    \/ ScanNext
    \/ PeerNext

\* The scheduler runs the goroutine of each seeder
ScanFairness ==
    /\ WF_vars(RunEntry)
    /\ WF_vars(ScanStep)
    /\ WF_vars(LoopExit)
    /\ WF_vars(QuitRecv(TheClose))
    /\ WF_vars(WaitQuit(TheClose))
    /\ WF_vars(Reply)

PeerFairness ==
    /\ WF_vars(PeerRunEntry)
    /\ WF_vars(PeerProbeStep)
    /\ WF_vars(PeerLoopExit)
    /\ WF_vars(PeerQuitRecv)
    /\ WF_vars(PeerWaitQuit)
    /\ WF_vars(PeerReply)

SharedSpec == InitShared /\ [][NextShared]_vars

\* The connection alone, next to a seeder that was never started: two
\* callers making Request after Request
InitConn == InitWith([a \in Algos |-> {NonCanonical}], {TheClose}) /\ algo = "scan"

NextRequest ==
    \/ \E r \in ReqProcs : ReqLock(r)
    \/ \E r \in ReqProcs : ReqRegister(r)
    \/ \E r \in ReqProcs : ReqIncr(r)
    \/ \E r \in ReqProcs : ReqUnlock(r)
    \/ \E r \in ReqProcs : ReqBalance(r)
    \/ \E id \in DOMAIN reqs : ReplyArrives(id)
    \/ \E r \in ReqProcs : ReqRecv(r)
    \/ \E r \in ReqProcs : ReqTimeout(r)
    \/ \E r \in ReqProcs : DeferLock(r)
    \/ \E r \in ReqProcs : DeferDelete(r)
    \/ \E r \in ReqProcs : DeferUnlock(r)

RequestSpec == InitConn /\ [][NextRequest]_vars

\* The connection alone: one caller making Subscribe and Unsubscribe calls
NextSubscribe ==
    \/ \E t \in Topics : SubscribeLock(t)
    \/ SubscribeBody
    \/ SubscribeUnlock
    \/ \E t \in Topics : UnsubscribeLock(t)
    \/ UnsubscribeDelete
    \/ UnsubscribeUnlock
    \/ UnsubscribeNotify

SubscribeSpec == InitConn /\ [][NextSubscribe]_vars

----------------------------------------------------------------------------
(* What the claims speak of *)

\* The configured subnet as the data model has it, with at least two host bits
Scannable == WellFormed(ipnet) /\ HostBitsOf(ipnet) >= 2

\* The valid host count of the configured subnet
N == ValidHosts(HostBitsOf(ipnet))

\* Bit k of an address, bit 0 the most significant one of the first byte
BitAt(ip, k) ==
    (ip[(k \div ByteBits) + 1] \div Pow2(ByteBits - 1 - (k % ByteBits))) % 2

\* The last bits bits of an address read as a big-endian integer
RECURSIVE HostPart(_, _)
HostPart(ip, bits) ==
    IF bits <= 0 THEN 0
    ELSE BitAt(ip, AddressBits - bits) * Pow2(bits - 1) + HostPart(ip, bits - 1)

\* The address keeps the network bits of the configured IP
SameNetwork(ip, bits) ==
    /\ Len(ip) = IPv4len
    /\ \A k \in 0..(AddressBits - bits - 1) : BitAt(ip, k) = BitAt(V4(ipnet.IP), k)

----------------------------------------------------------------------------
\* The bag of the addresses received from the lo-th to the hi-th
RECURSIVE ReceivedBag(_, _)
ReceivedBag(lo, hi) ==
    IF lo > hi THEN EmptyBag
    ELSE IF lo = hi THEN SetToBag({received[lo]})
    ELSE LET mid == (lo + hi) \div 2 IN
         ReceivedBag(lo, mid) (+) ReceivedBag(mid + 1, hi)

(* C1: Linear-Scan coverage. For a subnet with hostBits >= 2 and any        *)
(* configured IP, the first 2 * (2^hostBits - 2) addresses received from a  *)
(* scanning seeder are exactly 2^hostBits - 2 distinct addresses, each      *)
(* received exactly twice.                                                  *)
C1_ScanCoverage ==
    (algo = "scan" /\ Scannable /\ Len(received) = 2 * N) =>
        LET got == ReceivedBag(1, 2 * N) IN
        /\ Cardinality(BagToSet(got)) = N
        /\ \A a \in BagToSet(got) : CopiesIn(a, got) = 2

\* Two full cycles were received from a subnet whose host part spans two bytes
C1_Witness ==
    /\ algo = "scan" /\ Scannable
    /\ HostBitsOf(ipnet) > ByteBits
    /\ Len(received) = 2 * N

(* C2: Range safety. For a subnet with hostBits >= 2, every address either  *)
(* seeder offers on the sink keeps the network bits of the subnet and has a *)
(* host part o with 0 < o < 2^hostBits - 1: never the network address,      *)
(* never the broadcast address.                                             *)
C2_RangeSafety ==
    (pc = "select" /\ Scannable) =>
        LET bits == HostBitsOf(ipnet)
            o    == HostPart(host, bits)
        IN  /\ SameNetwork(host, bits)
            /\ o > 0
            /\ o < Pow2(bits) - 1

\* The probing seeder offers the last valid host of its subnet
C2_Witness ==
    /\ algo = "probe" /\ Scannable /\ pc = "select"
    /\ HostPart(host, HostBitsOf(ipnet)) = Pow2(HostBitsOf(ipnet)) - 2
    /\ Len(received) > 0

(* C3: Too-small address space. For a subnet with hostBits < 2, scanned or  *)
(* probed, no address is ever offered on the sink, and a Close call issued  *)
(* after Start eventually returns the 'host address space too small' error. *)
C3_TooSmall ==
    /\ [](HostBitsOf(ipnet) < 2 => (pc # "select" /\ received = <<>>))
    /\ (/\ HostBitsOf(ipnet) < 2
        /\ caller.pc = "started"
        /\ closers[TheClose].pc = "sending")
         ~> (/\ closers[TheClose].pc = "returned"
             /\ closers[TheClose].ret # Nil
             /\ closers[TheClose].ret = ErrTooSmall(HostBitsOf(ipnet)))

\* Close returned the error of a point-to-point subnet
C3_Witness ==
    /\ HostBitsOf(ipnet) = 1
    /\ WellFormed(ipnet)
    /\ closers[TheClose].pc = "returned"
    /\ closers[TheClose].ret = ErrTooSmall(1)
    /\ pc = "done"

(* C4: Quiescence after Close. Once Close has returned, run() has left its  *)
(* loop for good: it has returned, and in no later step is an address       *)
(* offered or received.                                                     *)
C4_Quiescence ==
    /\ [](closers[TheClose].pc = "returned" => pc = "done")
    /\ [][closers[TheClose].pc = "returned" =>
            (received' = received /\ pc' = "done")]_vars

\* Close returned after the consumer had received addresses
C4_Witness ==
    /\ closers[TheClose].pc = "returned"
    /\ Scannable
    /\ Len(received) > 0
    /\ pc = "done"

(* C5: Graceful stop returns no error. For a subnet with hostBits >= 2, a   *)
(* Close issued after Start returns nil, however many addresses the         *)
(* consumer received before.                                                *)
C5_GracefulNil ==
    \A c \in CloserIds :
        (Scannable /\ closers[c].pc = "returned") => closers[c].ret = Nil

\* Close returned nil in the middle of the second cycle
C5_Witness ==
    /\ Scannable
    /\ closers[TheClose].pc = "returned"
    /\ closers[TheClose].ret = Nil
    /\ Len(received) > N
    /\ Len(received) < 2 * N

(* C6: Close terminates without a consumer. With nobody receiving from the  *)
(* sink, a Close call on a started seeder still returns, the goroutines     *)
(* being scheduled fairly.                                                  *)
C6_CloseWithoutConsumer ==
    (/\ WellFormed(ipnet)
     /\ caller.pc = "started"
     /\ closers[TheClose].pc = "sending")
        ~> closers[TheClose].pc = "returned"

\* Close returned while an offered address was never received
C6_Witness ==
    /\ Scannable
    /\ closers[TheClose].pc = "returned"
    /\ host # <<>>
    /\ received = <<>>

(* C7, as claimed: shutdown has priority over emission. When a Close call   *)
(* is already blocked on the request channel as run() reaches its select,   *)
(* the shutdown arm is taken even if a consumer is ready: no address is     *)
(* delivered by that select.                                                *)
C7_ShutdownPriority ==
    [][(pc = "select" /\ quitReady) => received' = received]_vars

(* C7, amended: the select gives shutdown no priority; once run() has       *)
(* received the shutdown request, it offers no address and none is          *)
(* delivered.                                                               *)
C7_NoEmissionAfterQuit ==
    /\ [](errc # "nil" => pc # "select")
    /\ [][errc # "nil" => received' = received]_vars

\* The request was received after addresses had been delivered, and run()
\* is back at its loop condition
C7_Witness ==
    /\ errc # "nil"
    /\ pc = "loop"
    /\ Scannable
    /\ Len(received) > 0

(* C8: Start is non-blocking and never reports the error itself. For every  *)
(* subnet, Start can return whatever the consumer and the Close calls do,   *)
(* and it returns nil, also when the address space is too small.            *)
C8_StartNonBlocking ==
    /\ caller.pc = "created" => ENABLED Start
    /\ caller.pc = "started" => caller.startErr = Nil

\* Start returned nil on a subnet whose error only Close reports
C8_Witness ==
    /\ caller.pc = "started"
    /\ caller.startErr = Nil
    /\ HostBitsOf(ipnet) < 2
    /\ err # Nil
    /\ closers[TheClose].pc = "idle"

(* C9: InvalidSubnet is surfaced at construction. Constructing a seeder for *)
(* a malformed mask/address pairing returns an InvalidSubnet error from the *)
(* constructor, before any run() exists.                                    *)
ErrInvalidSubnet == <<"invalid subnet">>

C9_InvalidSubnetAtConstruction ==
    (caller.pc # "new" /\ ~WellFormed(ipnet)) =>
        (caller.newErr = ErrInvalidSubnet /\ pc = "none")

(* C10: Linear-Scan origin and order. For a subnet with hostBits >= 2, also *)
(* one whose host part spans more than one byte, and o the host part of the *)
(* configured IP read as a big-endian integer, the addresses of one cycle   *)
(* are the candidates o, o+1, o-1, o+2, o-2, ... in that order with the     *)
(* out-of-range candidates dropped; when o is a valid host offset, the      *)
(* first address after Start is the configured IP itself.                   *)

\* The j-th candidate of the walk around o, j = 0, 1, 2, ...
Candidate(o, j) ==
    IF j % 2 = 1 THEN o + (j + 1) \div 2 ELSE o - j \div 2

\* The k-th candidate, counted from the j-th on, that is a valid host offset
\* of a subnet with bits host bits
RECURSIVE KthValid(_, _, _, _)
KthValid(o, bits, k, j) ==
    IF Candidate(o, j) > 0 /\ Candidate(o, j) < Pow2(bits) - 1
    THEN IF k = 1 THEN Candidate(o, j) ELSE KthValid(o, bits, k - 1, j + 1)
    ELSE KthValid(o, bits, k, j + 1)

C10_ScanOrder ==
    (algo = "scan" /\ Scannable /\ Len(received) >= 1 /\ Len(received) <= N) =>
        LET bits == HostBitsOf(ipnet)
            o    == HostPart(V4(ipnet.IP), bits)
            k    == Len(received)
        IN  /\ received[k] = AddrString(HostAddress(ipnet, KthValid(o, bits, k, 0)))
            /\ (o > 0 /\ o < Pow2(bits) - 1) => received[1] = AddrString(ipnet.IP)

\* The same, for the subnets whose host part lies within the last byte
C10_ScanOrderWithinByte ==
    HostBitsOf(ipnet) <= ByteBits => C10_ScanOrder

(* C20: Linear-Scan always gets back to its select. For a subnet with       *)
(* hostBits >= 2 and any configured address, the scan loop runs at most 4   *)
(* iterations in a row that end in a continue before it offers an address   *)
(* in its select again.                                                     *)
C20_BoundedSkips ==
    (algo = "scan" /\ HostBitsOf(ipnet) >= 2) => skips <= 4

\* The scan configured with a broadcast address, restarting its cycle: the run
\* of 4 iterations without a select
C20_Witness ==
    /\ algo = "scan" /\ Scannable
    /\ pc = "loop"
    /\ skips = 4
    /\ Len(received) >= N

(* C11: Linear-Scan restarts from the same origin forever. For a subnet     *)
(* with hostBits >= 2 and N = 2^hostBits - 2, the (k+N)-th address received *)
(* equals the k-th, and the scan never stops on its own: whenever it is at  *)
(* its loop condition with no shutdown request received, it offers a        *)
(* further address.                                                         *)
C11_Periodic ==
    (algo = "scan" /\ Scannable /\ Len(received) > N) =>
        received[Len(received)] = received[Len(received) - N]

C11_PeriodicForever ==
    /\ []C11_Periodic
    /\ (algo = "scan" /\ Scannable /\ pc = "loop" /\ LoopCond) ~> (pc = "select")

\* The consumer went on receiving after two cycles: the second address of the
\* third cycle is offered
C11_Witness ==
    /\ algo = "scan" /\ Scannable
    /\ Len(received) = 2 * N
    /\ pc = "select"
    /\ AddrString(host) = received[N + 2]
    /\ closers[TheClose].pc = "idle"

(* C12: Random-Probe has no memory and full support. For a subnet with      *)
(* hostBits >= 2, at every iteration of the probe loop, whatever was        *)
(* received before, every host offset in 1 .. 2^hostBits - 2 can be the     *)
(* next address offered.                                                    *)
C12_ProbeFullSupport ==
    (algo = "probe" /\ Scannable /\ pc = "loop" /\ LoopCond) =>
        \A o \in 1..N :
            ENABLED (ProbeStep /\ HostPart(host', HostBitsOf(ipnet)) = o)

\* An immediate duplicate: the address just received is offered again
C12_Witness ==
    /\ algo = "probe" /\ Scannable
    /\ pc = "select"
    /\ Len(received) >= 1
    /\ AddrString(host) = received[Len(received)]

(* C13: Close terminates under a greedy consumer. With a consumer that is   *)
(* always ready to receive from the sink, a Close call on a started seeder  *)
(* still returns: the select takes the shutdown request in the end.         *)
C13_CloseUnderGreedyConsumer ==
    (/\ WellFormed(ipnet)
     /\ caller.pc = "started"
     /\ closers[TheClose].pc = "sending")
        ~> (closers[TheClose].pc = "returned" /\ pc = "done")

\* Close returned from a scan whose consumer had gone on receiving into the
\* third cycle
C13_Witness ==
    /\ algo = "scan" /\ Scannable
    /\ closers[TheClose].pc = "returned"
    /\ Len(received) = 2 * N
    /\ AddrString(host) = received[2]

(* C14, as claimed: a failed seeder terminates immediately. For a subnet    *)
(* with hostBits < 2, run() has returned right after its check of the host  *)
(* address space, before and without any Close call: it is never found      *)
(* past the check other than returned.                                      *)
C14_TerminatesImmediately ==
    (HostBitsOf(ipnet) < 2 /\ pc \notin {"none", "entry", "loop"}) => pc = "done"

(* C14, amended: for a subnet with hostBits < 2, run() leaves its loop      *)
(* right after the check without offering an address, then stays blocked    *)
(* on the quit channel until a Close call is made; it returns only by       *)
(* handing the held error to that call.                                     *)
C14_WaitsForClose ==
    /\ [](HostBitsOf(ipnet) < 2 => (pc # "select" /\ received = <<>>))
    /\ [][(HostBitsOf(ipnet) < 2 /\ pc = "loop" /\ pc' # pc) => pc' = "wait"]_vars
    /\ []((HostBitsOf(ipnet) < 2 /\ pc = "done") =>
            (/\ errc \in CloserIds
             /\ closers[errc].pc = "returned"
             /\ closers[errc].ret = ErrTooSmall(HostBitsOf(ipnet))))
    /\ []((HostBitsOf(ipnet) < 2 /\ \A c \in CloserIds : closers[c].pc = "idle") =>
            pc # "done")

\* run() of a seeder of a point-to-point subnet is blocked on the quit channel
\* and no Close call was made
C14_Witness ==
    /\ HostBitsOf(ipnet) = 1
    /\ WellFormed(ipnet)
    /\ pc = "wait"
    /\ err = ErrTooSmall(1)
    /\ \A c \in CloserIds : closers[c].pc = "idle"

(* C17: one-shot shutdown protocol. run() receives at most one shutdown     *)
(* request and sends one outcome on the one reply channel it received       *)
(* before it returns; so of two Close calls on a seeder, made one after the *)
(* other or at once, only the one whose request run() received returns, and *)
(* a Close call on a seeder that was not started does not return.           *)
Served == {c \in CloserIds : closers[c].pc \in {"receiving", "returned"}}

C17_OneShot ==
    /\ [](Cardinality(Served) <= 1 /\ \A c \in Served : errc = c)
    /\ [][errc # "nil" => errc' = errc]_vars
    /\ [](pc = "done" =>
            /\ Served = {errc}
            /\ closers[errc].pc = "returned"
            /\ closers[errc].ret = err)
    /\ [][\A c \in CloserIds :
            (pc = "done" /\ closers[c].pc = "sending") => closers'[c].pc = "sending"]_vars
    /\ [](caller.pc # "started" => Served = {})

\* The first Close call returned and run() with it; the second is blocked in
\* its send
C17_Witness ==
    /\ pc = "done"
    /\ closers[TheClose].pc = "returned"
    /\ closers[Again].pc = "sending"
    /\ Scannable
    /\ Len(received) > 0

(* C16: the phase is untouched by the seeders. No step of a scanning or     *)
(* probing seeder changes the phase, and what they offer does not depend on *)
(* it: while the consumer writes the phase at will, the k-th address        *)
(* received from a scan is the k-th of the walk the subnet alone fixes, and *)
(* a probe can offer every host offset at every iteration.                  *)

\* The k-th address of the scan of the configured subnet: the walk around
\* hostIP as run() computes it, cycle after cycle
ScanAddress(k) ==
    LET bits == HostBitsOf(ipnet) IN
    AddrString(HostAddress(ipnet,
        KthValid(HostIPOf(ipnet, bits), bits, ((k - 1) % N) + 1, 0)))

C16_PhaseUntouched ==
    /\ [][Next => phase' = phase]_vars
    /\ []((algo = "scan" /\ Scannable /\ Len(received) > 0) =>
            received[Len(received)] = ScanAddress(Len(received)))
    /\ []((algo = "probe" /\ Scannable /\ pc = "loop" /\ LoopCond) =>
            \A o \in 1..N :
                ENABLED (ProbeStep /\ HostPart(host', HostBitsOf(ipnet)) = o
                            /\ phase' = phase))

\* Two scan cycles were received while the consumer wrote the phase
C16_Witness ==
    /\ algo = "scan" /\ Scannable
    /\ phase = MaxPhase
    /\ Len(received) = 2 * N
    /\ HostIPOf(ipnet, HostBitsOf(ipnet)) = 0

(* C15: seeders sharing one sink are independent. With a scanning and a    *)
(* probing seeder started on the same sink, a Close of either returns with  *)
(* only the steps of its own seeder being scheduled, changes nothing of the *)
(* other, which can still hand valid addresses to the consumer; closing     *)
(* both, in either order, ends both; and the addresses received from the    *)
(* scan are in the order of the scan alone.                                 *)
C15_SharedSinkIndependence ==
    /\ ScanFairness =>
            ((caller.pc = "started" /\ closers[TheClose].pc = "sending")
                ~> (closers[TheClose].pc = "returned" /\ pc = "done"))
    /\ PeerFairness =>
            ((peer.pc # "none" /\ peer.closer.pc = "sending")
                ~> (peer.closer.pc = "returned" /\ peer.pc = "done"))
    /\ [][ScanNext => peer' = peer]_vars
    /\ [][PeerNext => UNCHANGED notPeer]_vars
    /\ []((closers[TheClose].pc = "returned" /\ peer.pc = "select"
                /\ peer.delivered < MaxProbeRecv) => ENABLED PeerSinkSend)
    /\ []((peer.closer.pc = "returned" /\ pc = "select"
                /\ Len(received) < RecvCap) => ENABLED SinkSend)
    /\ []((Scannable /\ peer.pc = "select") =>
            LET o == HostPart(peer.host, HostBitsOf(ipnet)) IN
            /\ SameNetwork(peer.host, HostBitsOf(ipnet))
            /\ o > 0 /\ o < Pow2(HostBitsOf(ipnet)) - 1)
    /\ []((Scannable /\ Len(received) > 0) =>
            received[Len(received)] = ScanAddress(Len(received)))

\* The scan was closed in the middle of its second cycle, after the peer had
\* delivered, and the peer is offering its next address
C15_Witness ==
    /\ Scannable
    /\ closers[TheClose].pc = "returned"
    /\ Len(received) > N /\ Len(received) < 2 * N
    /\ peer.delivered > 0
    /\ peer.pc = "select"
    /\ peer.closer.pc = "idle"

\* The Requests that hold an entry of the table: registered, not yet deleted
InFlight ==
    {r \in ReqProcs : requests[r].pc \in {"registered", "counted", "unlocked",
                                          "waiting", "deferred", "cleaning"}}

\* C18: under any interleaving of Request calls no request id is assigned
\* twice, so an in-flight Request's id differs from that of every other
\* in-flight or earlier Request; c.reqs holds exactly the ids of the
\* in-flight Requests; and a Request that has returned, with a reply or
\* with the time out error, has its id out of the table.
C18_RequestTable ==
    /\ \A i, j \in 1..Len(reqLog) : i # j => reqLog[i] # reqLog[j]
    /\ \A r, q \in InFlight : r # q => requests[r].reqId # requests[q].reqId
    /\ DOMAIN reqs = {requests[r].reqId : r \in InFlight}
    /\ \A r \in ReqProcs :
          requests[r].pc = "returned" =>
              /\ requests[r].reqId \notin DOMAIN reqs
              /\ requests[r].ret.rep = (requests[r].ret.err = Nil)
              /\ requests[r].ret.err \in {Nil, ErrTimedOut}

\* Three Requests were made: one has returned with a reply and its caller
\* timed out on the next, while the other caller's Request is still waiting
C18_Witness ==
    /\ Len(reqLog) = 3
    /\ \E r, q \in ReqProcs :
          /\ requests[r].pc = "returned" /\ requests[r].ret.err = ErrTimedOut
          /\ requests[r].reqId = 2
          /\ requests[q].pc = "waiting"
          /\ requests[q].reqId = 1
          /\ DOMAIN reqs = {1}

\* No call is under way
Quiet == subscriber.pc \in {"idle", "returned"}

\* The call that has just returned left the table and the carrier alone
LeftAlone == subs = subscriber.before /\ Len(relayCalls) = subscriber.relayed

\* Subscribe on a subscribed topic returns "already subscribed", Unsubscribe
\* on a topic not subscribed returns "not subscribed", each leaving the
\* table unchanged and making no carrier call
C19_RefusalsLeaveAlone ==
    subscriber.pc = "returned" =>
        /\ (subscriber.op = "Subscribe" /\ subscriber.topic \in subscriber.before)
              => (subscriber.ret = ErrAlreadySubscribed /\ LeftAlone)
        /\ (subscriber.op = "Unsubscribe" /\ subscriber.topic \notin subscriber.before)
              => (subscriber.ret = ErrNotSubscribed /\ LeftAlone)

\* C19: after any sequence of Subscribe and Unsubscribe calls a topic is in
\* c.subs exactly when the most recent call on it that returned no error
\* was a Subscribe, and the two refusals leave the table unchanged and make
\* no carrier call.
C19_SubscriptionTable ==
    /\ Quiet => \A t \in Topics : (t \in subs) <=> (lastOk[t] = "Subscribe")
    /\ C19_RefusalsLeaveAlone

\* What the code keeps: a topic is in c.subs exactly when the most recent
\* call on it that was not refused was a Subscribe, whatever the carrier
\* answered
C19_TableFollowsAcceptedCalls ==
    \A t \in Topics :
        (Quiet /\ subscriber.topic = t /\ subscriber.pc = "returned"
               /\ subscriber.ret \notin {ErrAlreadySubscribed, ErrNotSubscribed})
            => ((t \in subs) <=> (subscriber.op = "Subscribe"))

\* A Subscribe has returned the error of the carrier and its topic is in
\* the table
C19_FailedSubscribeKept ==
    /\ subscriber.pc = "returned"
    /\ subscriber.op = "Subscribe"
    /\ subscriber.ret = ErrCarrier
    /\ subscriber.topic \in subs
    /\ lastOk[subscriber.topic] # "Subscribe"

====
